---- MODULE Spec2Model ----
(***************************************************************************)
(* Model of schemas/core.py: the four pydantic record schemas Ticket,      *)
(* TicketSummary, DecisionProposal and HumanFeedback.                      *)
(*                                                                         *)
(* The only operations the source defines are the constructors of the four *)
(* BaseModel subclasses.  A constructor takes a raw payload (keyword       *)
(* arguments), validates every declared field on its own (required-ness,   *)
(* type, Literal membership, Optional default) and either returns the      *)
(* typed record or raises a ValidationError naming every offending field.  *)
(* The source declares no cross-field validator and no numeric constraint  *)
(* (no ge/le on any float field); the ranges and the conditional           *)
(* requirement of rejection_reason appear only in description strings.     *)
(*                                                                         *)
(* Floats are modelled on a grid of tenths: the integer n stands for n/10, *)
(* so the unit interval [0.0, 1.0] is 0..10.                               *)
(***************************************************************************)
EXTENDS Integers, Sequences, FiniteSets, TLC

VARIABLES kind, candidate, outcome

vars == <<kind, candidate, outcome>>

\* How far beyond the unit interval (in tenths) candidate floats are drawn.
Overshoot == 3

\* How many distinct valid timestamps candidates are drawn from.
MaxTime == 1

(***************************************************************************)
(* Raw payload values, as a caller may pass them to a constructor.         *)
(***************************************************************************)
Missing == [tag |-> "missing"]
None == [tag |-> "none"]
Str(s) == [tag |-> "str", str |-> s]
Num(n) == [tag |-> "num", num |-> n]
List(q) == [tag |-> "list", list |-> q]

RawUUIDs == {Str("t1"), Str("not-a-uuid"), Missing}
RawTexts == {Str(""), Str("text"), None, Missing}
RawTimes == {Num(t) : t \in 1..MaxTime} \cup {Str("not-a-date"), Missing}
RawFloats ==
  {Num(n) : n \in (0 - Overshoot)..(10 + Overshoot)}
    \cup {Str("0.5"), Str("abc"), None, Missing}
RawDecisions ==
  {Str("approve"), Str("deny"), Str("cant_decide"), Str("maybe"), Missing}
RawActions ==
  {Str("approved"), Str("edited"), Str("rejected"), Str("escalated"), Missing}
RawOptTexts == {Str(""), Str("wrong policy"), None, Missing}
RawDiffs == {Str("diff"), None, Missing}
RawLists == {List(<<>>), List(<<"R1">>), Missing}

(***************************************************************************)
(* Per-field validation, as pydantic performs it for the declared types.   *)
(***************************************************************************)
\* str: a required field accepts any string, the empty one included.
StrOk(v) == v.tag = "str"

\* UUID: a UUID, or a string in UUID format.
UUIDOk(v) == v.tag = "str" /\ v.str = "t1"

\* datetime: a datetime, or a number read as a unix timestamp.
DatetimeOk(v) == v.tag = "num"

\* float: a number, or a string that parses as one.  No bound is declared.
NumericStrings == {"0.5"}
ParseFloat(s) == CASE s = "0.5" -> 5 [] OTHER -> 0
FloatOk(v) == v.tag = "num" \/ (v.tag = "str" /\ v.str \in NumericStrings)
FloatOf(v) == IF v.tag = "num" THEN v.num ELSE ParseFloat(v.str)

\* Literal[...]: one of the listed strings.
Decisions == {"approve", "deny", "cant_decide"}
Actions == {"approved", "edited", "rejected"}
LiteralOk(v, allowed) == v.tag = "str" /\ v.str \in allowed

\* Optional[str] = None: None, a string, or left out (the default None).
OptStrOk(v) == v.tag \in {"str", "none", "missing"}
OptStrOf(v) == IF v.tag = "missing" THEN None ELSE v

\* list[str]
ListOk(v) == v.tag = "list"

Accepted(value) == [status |-> "ok", errors |-> {}, value |-> value]
Rejected(errs, payload) ==
  [status |-> "ValidationError", errors |-> errs, value |-> payload]
Result(errs, value, payload) ==
  IF errs = {} THEN Accepted(value) ELSE Rejected(errs, payload)

(***************************************************************************)
(* The four constructors.                                                  *)
(***************************************************************************)
TicketPayloads == [id : RawUUIDs, raw_text : RawTexts, created_at : RawTimes]

Ticket(p) ==
  LET errs == {f \in {"id"} : ~UUIDOk(p.id)}
                \cup {f \in {"raw_text"} : ~StrOk(p.raw_text)}
                \cup {f \in {"created_at"} : ~DatetimeOk(p.created_at)}
  IN Result(errs,
            IF errs = {} THEN [id |-> p.id.str, raw_text |-> p.raw_text.str,
                               created_at |-> p.created_at.num]
                         ELSE p,
            p)

TicketSummaryPayloads ==
  [ticket_id : RawUUIDs, summary : RawTexts, confidence : RawFloats,
   created_at : RawTimes]

TicketSummary(p) ==
  LET errs == {f \in {"ticket_id"} : ~UUIDOk(p.ticket_id)}
                \cup {f \in {"summary"} : ~StrOk(p.summary)}
                \cup {f \in {"confidence"} : ~FloatOk(p.confidence)}
                \cup {f \in {"created_at"} : ~DatetimeOk(p.created_at)}
  IN Result(errs,
            IF errs = {} THEN [ticket_id |-> p.ticket_id.str,
                               summary |-> p.summary.str,
                               confidence |-> FloatOf(p.confidence),
                               created_at |-> p.created_at.num]
                         ELSE p,
            p)

DecisionProposalPayloads ==
  [ticket_id : RawUUIDs, decision : RawDecisions, confidence : RawFloats,
   reason_codes : RawLists, response_draft : RawTexts, created_at : RawTimes]

\* DecisionProposal with a cross-field validator coupling response_draft to
\* decision: an empty draft is an error unless decision is cant_decide.
DecisionProposal_DraftCoupled(p) ==
  LET errs == {f \in {"ticket_id"} : ~UUIDOk(p.ticket_id)}
                \cup {f \in {"decision"} : ~LiteralOk(p.decision, Decisions)}
                \cup {f \in {"confidence"} : ~FloatOk(p.confidence)}
                \cup {f \in {"reason_codes"} : ~ListOk(p.reason_codes)}
                \cup {f \in {"response_draft"} :
                        \/ ~StrOk(p.response_draft)
                        \/ /\ p.response_draft = Str("")
                           /\ p.decision # Str("cant_decide")}
                \cup {f \in {"created_at"} : ~DatetimeOk(p.created_at)}
  IN Result(errs,
            IF errs = {} THEN [ticket_id |-> p.ticket_id.str,
                               decision |-> p.decision.str,
                               confidence |-> FloatOf(p.confidence),
                               reason_codes |-> p.reason_codes.list,
                               response_draft |-> p.response_draft.str,
                               created_at |-> p.created_at.num]
                         ELSE p,
            p)

DecisionProposal(p) ==
  LET errs == {f \in {"ticket_id"} : ~UUIDOk(p.ticket_id)}
                \cup {f \in {"decision"} : ~LiteralOk(p.decision, Decisions)}
                \cup {f \in {"confidence"} : ~FloatOk(p.confidence)}
                \cup {f \in {"reason_codes"} : ~ListOk(p.reason_codes)}
                \cup {f \in {"response_draft"} : ~StrOk(p.response_draft)}
                \cup {f \in {"created_at"} : ~DatetimeOk(p.created_at)}
  IN Result(errs,
            IF errs = {} THEN [ticket_id |-> p.ticket_id.str,
                               decision |-> p.decision.str,
                               confidence |-> FloatOf(p.confidence),
                               reason_codes |-> p.reason_codes.list,
                               response_draft |-> p.response_draft.str,
                               created_at |-> p.created_at.num]
                         ELSE p,
            p)

HumanFeedbackPayloads ==
  [ticket_id : RawUUIDs, action : RawActions, confidence_at_time : RawFloats,
   rejection_reason : RawOptTexts, edited_diff : RawDiffs,
   created_at : RawTimes]

HumanFeedback(p) ==
  LET errs == {f \in {"ticket_id"} : ~UUIDOk(p.ticket_id)}
                \cup {f \in {"action"} : ~LiteralOk(p.action, Actions)}
                \cup {f \in {"confidence_at_time"} :
                        ~FloatOk(p.confidence_at_time)}
                \cup {f \in {"rejection_reason"} :
                        ~OptStrOk(p.rejection_reason)}
                \cup {f \in {"edited_diff"} : ~OptStrOk(p.edited_diff)}
                \cup {f \in {"created_at"} : ~DatetimeOk(p.created_at)}
  IN Result(errs,
            IF errs = {} THEN [ticket_id |-> p.ticket_id.str,
                               action |-> p.action.str,
                               confidence_at_time |->
                                 FloatOf(p.confidence_at_time),
                               rejection_reason |->
                                 OptStrOf(p.rejection_reason),
                               edited_diff |-> OptStrOf(p.edited_diff),
                               created_at |-> p.created_at.num]
                         ELSE p,
            p)

(***************************************************************************)
(* State machine: a caller holds a payload for one of the four kinds and   *)
(* calls the constructor of that kind.                                     *)
(***************************************************************************)
Pending == [status |-> "pending", errors |-> {}, value |-> None]

Init ==
  /\ outcome = Pending
  /\ \/ kind = "Ticket" /\ candidate \in TicketPayloads
     \/ kind = "TicketSummary" /\ candidate \in TicketSummaryPayloads
     \/ kind = "DecisionProposal" /\ candidate \in DecisionProposalPayloads
     \/ kind = "HumanFeedback" /\ candidate \in HumanFeedbackPayloads

ConstructTicket ==
  /\ kind = "Ticket"
  /\ outcome.status = "pending"
  /\ outcome' = Ticket(candidate)
  /\ UNCHANGED <<kind, candidate>>

ConstructTicketSummary ==
  /\ kind = "TicketSummary"
  /\ outcome.status = "pending"
  /\ outcome' = TicketSummary(candidate)
  /\ UNCHANGED <<kind, candidate>>

ConstructDecisionProposal ==
  /\ kind = "DecisionProposal"
  /\ outcome.status = "pending"
  /\ outcome' = DecisionProposal(candidate)
  /\ UNCHANGED <<kind, candidate>>

ConstructHumanFeedback ==
  /\ kind = "HumanFeedback"
  /\ outcome.status = "pending"
  /\ outcome' = HumanFeedback(candidate)
  /\ UNCHANGED <<kind, candidate>>

Next ==
  \/ ConstructTicket
  \/ ConstructTicketSummary
  \/ ConstructDecisionProposal
  \/ ConstructHumanFeedback

Spec == Init /\ [][Next]_vars

TypeOK ==
  /\ kind \in {"Ticket", "TicketSummary", "DecisionProposal", "HumanFeedback"}
  /\ outcome.status \in {"pending", "ok", "ValidationError"}
  /\ (outcome.status = "ValidationError") <=> (outcome.errors # {})

InUnitInterval(c) == 0 <= c /\ c <= 10

Built(k) == kind = k /\ outcome.status = "ok"

(***************************************************************************)
(* C6: constructing a HumanFeedback succeeds only if rejection_reason is   *)
(* present exactly when action = "rejected": an approved or edited         *)
(* candidate with a non-empty rejection_reason is rejected, and a rejected *)
(* candidate whose rejection_reason is absent (None) is rejected.          *)
(* The schema declares no validator tying the two fields, so the           *)
(* constructor accepts both shapes.                                        *)
(***************************************************************************)
C6_RejectionReasonIffRejected ==
  Built("HumanFeedback") =>
    /\ ~ /\ outcome.value.action \in {"approved", "edited"}
         /\ outcome.value.rejection_reason \notin {None, Str("")}
    /\ ~ /\ outcome.value.action = "rejected"
         /\ outcome.value.rejection_reason = None

(***************************************************************************)
(* C7: constructing a TicketSummary or DecisionProposal with confidence    *)
(* outside [0,1], or a HumanFeedback with confidence_at_time outside       *)
(* [0,1], always fails; every constructed record has its confidence value  *)
(* within [0,1].  The float fields carry no ge/le bound, so the            *)
(* constructors accept any number.                                         *)
(***************************************************************************)
C7_ConfidenceInUnitInterval ==
  /\ Built("TicketSummary") => InUnitInterval(outcome.value.confidence)
  /\ Built("DecisionProposal") => InUnitInterval(outcome.value.confidence)
  /\ Built("HumanFeedback") =>
       InUnitInterval(outcome.value.confidence_at_time)

(***************************************************************************)
(* C8 as stated: a DecisionProposal with an empty response_draft is        *)
(* accepted only when decision = "cant_decide".                            *)
(***************************************************************************)
C8_EmptyDraftOnlyCantDecide ==
  (Built("DecisionProposal") /\ outcome.value.response_draft = "")
    => outcome.value.decision = "cant_decide"

(***************************************************************************)
(* C8 as amended: whether a DecisionProposal is accepted does not depend   *)
(* on response_draft being empty.  For every candidate whose               *)
(* response_draft is the empty string and whose decision is one of         *)
(* approve, deny, cant_decide, the constructor reports no error on         *)
(* response_draft or decision, returns the same status as it does for the  *)
(* same candidate with a non-empty draft, and on success the record keeps  *)
(* the empty draft.                                                        *)
(***************************************************************************)
C8_EmptyDraftAcceptedForAnyDecision ==
  ( /\ kind = "DecisionProposal"
    /\ outcome.status # "pending"
    /\ candidate.response_draft = Str("")
    /\ LiteralOk(candidate.decision, Decisions) )
    => /\ outcome.errors \cap {"response_draft", "decision"} = {}
       /\ outcome.status =
            DecisionProposal(
              [candidate EXCEPT !.response_draft = Str("text")]).status
       /\ outcome.status = "ok" => outcome.value.response_draft = ""

C8_Witness ==
  /\ Built("DecisionProposal")
  /\ outcome.value.response_draft = ""
  /\ outcome.value.decision = "approve"

====
